---- MODULE Spec2Model ----
(***************************************************************************)
(* scr: concurrent directory scan (scan_dir, rayon par_iter) feeding an    *)
(* unbounded channel drained by one aggregator thread (print_files) that   *)
(* keeps the N largest files and publishes a shared size floor.            *)
(***************************************************************************)
EXTENDS Integers, Sequences, FiniteSets, TLC

(* ---------------- bounds of the model ---------------- *)
MaxSize == 3
MaxN == 2
MaxMinSize == 1

(* ---------------- ScanResult (main.rs 60-75) ---------------- *)
ZeroResult == [errors |-> 0, permission_denied |-> 0, files |-> 0, directories |-> 0]

add_assign(a, b) ==
    [errors |-> a.errors + b.errors,
     permission_denied |-> a.permission_denied + b.permission_denied,
     files |-> a.files + b.files,
     directories |-> a.directories + b.directories]

OneFile == [ZeroResult EXCEPT !.files = 1]
OneDenied == [ZeroResult EXCEPT !.permission_denied = 1]
OneError == [ZeroResult EXCEPT !.errors = 1]
\* mutant: the directory is counted twice
TwoDirectories == [ZeroResult EXCEPT !.directories = 2]
\* result.directories += 1 (main.rs 152)
OneDirectory == [ZeroResult EXCEPT !.directories = 1]

(* ---------------- the scanned tree (input) ---------------- *)
(* Node 0 is the root path; nodes 1.. are directory entries.               *)
Node(parent, kind, size, convertible, dev, stat, read) ==
    [parent |-> parent, kind |-> kind, size |-> size, convertible |-> convertible,
     dev |-> dev, stat |-> stat, read |-> read]

RootDir == Node(-1, "dir", 0, TRUE, 1, "ok", "ok")
File(p, s) == Node(p, "file", s, TRUE, 1, "ok", "ok")
Dir(p, dev, read) == Node(p, "dir", 0, TRUE, dev, "ok", read)
\* a regular file whose conversion into a candidate fails: its path is not valid
\* UTF-8 (main.rs 36)
Unconvertible(p, s) == Node(p, "file", s, FALSE, 1, "ok", "ok")
\* a regular file whose metadata() fails
Unstatable(p, stat) == Node(p, "file", 0, TRUE, 1, stat, "ok")
\* "symlink"; "ftdenied", "fterr": file_type() fails; "enumerr": the directory
\* iterator yields an error for the entry
Special(p, kind) == Node(p, kind, 0, TRUE, 1, "ok", "ok")

VARIABLES
    tree,            \* the directory tree being scanned (unchanging)
    n,               \* Args.nentries
    minsize,         \* Args.minsize
    allowed,         \* allowed_devices
    status,          \* per node: position of its par_iter closure / scan_dir call
    current_min,     \* per node: the walker's local current_min (main.rs 127)
    thread_result,   \* per node: thread_result returned by its closure
    min_size,        \* the shared AtomicU64 floor
    chan,            \* unbounded channel, FIFO
    entries,         \* print_files: entries
    current_status,  \* print_files: current_status
    snap,            \* last snapshot handed to the printer
    mainPc,          \* position of the spawn_blocking closure / main
    aggPc,           \* position of print_files
    panicked,        \* a walker closure or the spawn_blocking closure has panicked
    received,        \* paths of the candidates received so far, in arrival order
    sent,            \* the events accepted by the channel so far, in order
    handled,         \* number of events print_files has taken from the channel
    run,             \* number of the scan of this tree (1 or 2)
    prevFinal        \* final top-K of the previous scan of this tree

vars == <<tree, n, minsize, allowed, status, current_min, thread_result, min_size,
          chan, entries, current_status, snap, mainPc, aggPc, panicked, received, sent,
          handled, run, prevFinal>>

Nodes == DOMAIN tree
Children(d) == {e \in Nodes : tree[e].parent = d}

RECURSIVE SumResults(_, _)
\* the loop `for r in results { result += r }` (main.rs 153-155)
SumResults(f, S) ==
    IF S = {} THEN ZeroResult
    ELSE LET e == CHOOSE x \in S : TRUE
         IN add_assign(f[e], SumResults(f, S \ {e}))

RECURSIVE CurrentDev(_)
\* current_dev of the scan_dir call on directory d (main.rs 86-87, 101-105, 117)
CurrentDev(d) ==
    IF d = 0 THEN (IF tree[0].stat = "ok" THEN tree[0].dev ELSE 0)
    ELSE IF tree[d].stat = "ok" THEN tree[d].dev
    ELSE CurrentDev(tree[d].parent)

\* mutant: the allow-set is not consulted
EnterSameDevice(e) ==
    ~(tree[e].stat = "ok" /\ tree[e].dev # CurrentDev(tree[e].parent))

\* the device-boundary check of a directory entry (main.rs 100-109)
Enter(e) ==
    ~(tree[e].stat = "ok"
      /\ tree[e].dev # CurrentDev(tree[e].parent)
      /\ tree[e].dev \notin allowed)

(* ---------------- channel ---------------- *)
FileMsg(e) == [type |-> "File", path |-> e, size |-> tree[e].size, sr |-> ZeroResult]
ResultMsg(r) == [type |-> "Result", path |-> -1, size |-> 0, sr |-> r]

\* the receiver is dropped when print_files returns or unwinds
RxClosed == aggPc \in {"done", "crashed"}
\* every sender is dropped when the spawn_blocking closure has ended
TxClosed == mainPc \in {"closed", "join", "exit", "aborted"}

\* UnboundedSender::send: never blocks; an error (receiver gone) loses the message
send(c, msg) == IF RxClosed THEN c ELSE Append(c, msg)

(* ---------------- top-K list ---------------- *)
Front(s) == SubSeq(s, 1, Len(s) - 1)
Last(s) == s[Len(s)]

\* mutants of the comparator: an ascending sort; a comparator that puts a new
\* element in front of its equals
BeforeAscending(x, y) == x.size < y.size
BeforeOrEqual(x, y) == x.size >= y.size

\* the comparator of entries.sort_by: |a, b| b.size.cmp(&a.size)  (main.rs 186)
\* TRUE when x has to be placed before y
Before(x, y) == x.size > y.size

\* place x behind every element it must not precede
InsertSorted(s, x) ==
    LET pos == IF \E i \in 1..Len(s) : Before(x, s[i])
               THEN CHOOSE i \in 1..Len(s) :
                        Before(x, s[i]) /\ \A j \in 1..(i-1) : ~Before(x, s[j])
               ELSE Len(s) + 1
    IN SubSeq(s, 1, pos - 1) \o <<x>> \o SubSeq(s, pos, Len(s))

RECURSIVE sort_by(_)
\* Vec::sort_by is a stable sort: equal elements keep their order
sort_by(s) ==
    IF s = <<>> THEN <<>>
    ELSE InsertSorted(sort_by(Front(s)), Last(s))

\* mutant: the list is cut one element too late
truncate_late(s, k) == IF Len(s) > k + 1 THEN SubSeq(s, 1, k + 1) ELSE s

\* Vec::truncate
truncate(s, k) == IF Len(s) > k THEN SubSeq(s, 1, k) ELSE s

\* mutant: the candidate is not compared with the floor
AcceptsNonEmpty(size, floor) == size > 0

\* the aggregator's test of a candidate against the loaded floor (main.rs 183)
Accepts(size, floor) == size > floor

\* mutant: the comparison is reversed
ForwardsBelow(size, floor) == size <= floor

\* the walker's test of a file against the floor it loaded (main.rs 128)
Forwards(size, floor) == size >= floor

\* mutant: the size of the first (largest) member is stored
PublishedFirst(es, old) == IF es # <<>> THEN es[1].size ELSE old

\* the value stored into the floor after an insertion (main.rs 192-194)
Published(es, old) == IF es # <<>> THEN Last(es).size ELSE old

Snapshot(kind, es, st) == [kind |-> kind, entries |-> es, status |-> st]

(* ---------------- initial states ---------------- *)
InitWith(Trees, Ns, MinSizes, Alloweds) ==
    /\ tree \in Trees
    /\ n \in Ns
    /\ minsize \in MinSizes
    /\ allowed \in Alloweds
    /\ status = [e \in DOMAIN tree |-> IF e = 0 THEN "ready" ELSE "none"]
    /\ current_min = [e \in DOMAIN tree |-> 0]
    /\ thread_result = [e \in DOMAIN tree |-> ZeroResult]
    /\ min_size = minsize
    /\ chan = <<>>
    /\ entries = <<>>
    /\ current_status = ZeroResult
    /\ snap = Snapshot("none", <<>>, ZeroResult)
    /\ mainPc = "scan"
    /\ aggPc = "recv"
    /\ panicked = FALSE
    /\ received = <<>>
    /\ sent = <<>>
    /\ handled = 0
    /\ run = 1
    /\ prevFinal = {}

\* only the device of the start path is allowed (main.rs 231-234)
InitOn(Trees, Ns, MinSizes) == InitWith(Trees, Ns, MinSizes, {{1}})

(* ---------------- walkers: scan_dir ---------------- *)
\* mutant: a directory that is denied is counted as an error
read_dir_miscount(d) ==
    CASE tree[d].read = "ok" ->
            /\ status' = [e \in Nodes |->
                   IF e = d THEN "scanning"
                   ELSE IF tree[e].parent = d
                        THEN (IF tree[e].kind = "enumerr" THEN "dropped" ELSE "ready")
                        ELSE status[e]]
            /\ UNCHANGED thread_result
      [] OTHER ->
            /\ status' = [status EXCEPT ![d] = "done"]
            /\ thread_result' = [thread_result EXCEPT ![d] = OneError]

\* std::fs::read_dir(path) and the collection of its entries (main.rs 89-92,
\* 157-158): an entry whose enumeration fails is filtered out
read_dir(d) ==
    CASE tree[d].read = "ok" ->
            /\ status' = [e \in Nodes |->
                   IF e = d THEN "scanning"
                   ELSE IF tree[e].parent = d
                        THEN (IF tree[e].kind = "enumerr" THEN "dropped" ELSE "ready")
                        ELSE status[e]]
            /\ UNCHANGED thread_result
      [] tree[d].read = "denied" ->
            /\ status' = [status EXCEPT ![d] = "done"]
            /\ thread_result' = [thread_result EXCEPT ![d] = OneDenied]
      [] OTHER ->
            /\ status' = [status EXCEPT ![d] = "done"]
            /\ thread_result' = [thread_result EXCEPT ![d] = OneError]

Finish(e, r) ==
    /\ status' = [status EXCEPT ![e] = "done"]
    /\ thread_result' = [thread_result EXCEPT ![e] = r]

\* mutant: the walker resets the floor when it starts
ScanRootResetsFloor ==
    /\ mainPc = "scan"
    /\ status[0] = "ready"
    /\ read_dir(0)
    /\ min_size' = 0
    /\ UNCHANGED <<tree, n, minsize, allowed, current_min, chan, entries,
                   current_status, snap, mainPc, aggPc, panicked, received, sent, handled, run,
                   prevFinal>>

\* scan_dir(root, ...) is called by the spawn_blocking closure (main.rs 238)
ScanRoot ==
    /\ mainPc = "scan"
    /\ status[0] = "ready"
    /\ read_dir(0)
    /\ UNCHANGED <<tree, n, minsize, allowed, current_min, min_size, chan, entries,
                   current_status, snap, mainPc, aggPc, panicked, received, sent, handled, run,
                   prevFinal>>

\* mutant: the type of the link's target is taken
IsDirFollowing(e) == tree[e].kind \in {"dir", "symlink"}

\* e.file_type() is Ok(ft) with ft.is_dir() (main.rs 98-99); the type is that of the
\* entry itself, a link is not followed
IsDir(e) == tree[e].kind = "dir"

\* ft.is_symlink() (main.rs 122)
IsSymlink(e) == tree[e].kind = "symlink"

\* the par_iter closure of one entry up to its read of the floor (main.rs 96-127,
\* 135-146)
MapEntry(e) ==
    /\ mainPc = "scan"
    /\ e # 0
    /\ status[e] = "ready"
    /\ CASE IsDir(e) ->
                /\ IF Enter(e) THEN read_dir(e) ELSE Finish(e, ZeroResult)
                /\ UNCHANGED current_min
         [] IsSymlink(e) -> Finish(e, OneFile) /\ UNCHANGED current_min
         [] tree[e].kind = "ftdenied" -> Finish(e, OneDenied) /\ UNCHANGED current_min
         [] tree[e].kind = "fterr" -> Finish(e, OneError) /\ UNCHANGED current_min
         [] OTHER ->
                CASE tree[e].stat = "ok" ->
                        /\ current_min' = [current_min EXCEPT ![e] = min_size]
                        /\ status' = [status EXCEPT ![e] = "loaded"]
                        /\ UNCHANGED thread_result
                  [] tree[e].stat = "denied" ->
                        Finish(e, OneDenied) /\ UNCHANGED current_min
                  [] OTHER -> Finish(e, OneError) /\ UNCHANGED current_min
    /\ UNCHANGED <<tree, n, minsize, allowed, min_size, chan, entries,
                   current_status, snap, mainPc, aggPc, panicked, received, sent, handled, run,
                   prevFinal>>

\* the comparison with the loaded floor, the conversion of the path into a
\* candidate (which unwraps) and the send (main.rs 128-133, 32-43)
MapEntrySend(e) ==
    /\ mainPc = "scan"
    /\ status[e] = "loaded"
    /\ IF Forwards(tree[e].size, current_min[e])
       THEN IF tree[e].convertible
            THEN /\ chan' = send(chan, FileMsg(e))
                 /\ sent' = send(sent, FileMsg(e))
                 /\ Finish(e, OneFile)
                 /\ UNCHANGED panicked
            ELSE /\ panicked' = TRUE
                 /\ status' = [status EXCEPT ![e] = "panicked"]
                 /\ UNCHANGED <<chan, sent, thread_result>>
       ELSE /\ Finish(e, OneFile)
            /\ UNCHANGED <<chan, sent, panicked>>
    /\ UNCHANGED <<tree, n, minsize, allowed, current_min, min_size, entries,
                   current_status, snap, mainPc, aggPc, received, handled,
                   run, prevFinal>>

\* the end of a scan_dir call whose entries have all been mapped (main.rs 149-160)
\* and, for a nested directory, the += of its caller (main.rs 112)
ScanDirReturn(d) ==
    /\ mainPc = "scan"
    /\ status[d] = "scanning"
    /\ \A e \in Children(d) : status[e] \in {"done", "dropped"}
    /\ Finish(d, add_assign(OneDirectory, SumResults(thread_result, Children(d))))
    /\ UNCHANGED <<tree, n, minsize, allowed, current_min, min_size, chan, entries,
                   current_status, snap, mainPc, aggPc, panicked, received, sent, handled, run,
                   prevFinal>>

(* ---------------- the scan driver: main ---------------- *)
\* tx.send(StatusUpdate::Result(final_res)).unwrap() (main.rs 239), or the unwinding
\* of the closure once the closures in flight have ended
SendResult ==
    /\ mainPc = "scan"
    /\ IF panicked
       THEN /\ \A e \in Nodes : status[e] # "loaded"
            /\ UNCHANGED <<chan, sent, panicked>>
       ELSE /\ status[0] = "done"
            /\ chan' = send(chan, ResultMsg(thread_result[0]))
            /\ sent' = send(sent, ResultMsg(thread_result[0]))
            /\ panicked' = RxClosed
    /\ mainPc' = "sent"
    /\ UNCHANGED <<tree, n, minsize, allowed, status, current_min, thread_result,
                   min_size, entries, current_status, snap, aggPc, received, handled,
                   run, prevFinal>>

\* the closure ends: tx and every clone of it are dropped (main.rs 240)
DropTx ==
    /\ mainPc = "sent"
    /\ mainPc' = "closed"
    /\ UNCHANGED <<tree, n, minsize, allowed, status, current_min, thread_result,
                   min_size, chan, entries, current_status, snap, aggPc, panicked,
                   received, sent, handled, run,
                   prevFinal>>

\* handle.await.unwrap() (main.rs 242): a panic of the closure aborts main
MainAwait ==
    /\ mainPc = "closed"
    /\ mainPc' = IF panicked THEN "aborted" ELSE "join"
    /\ UNCHANGED <<tree, n, minsize, allowed, status, current_min, thread_result,
                   min_size, chan, entries, current_status, snap, aggPc, panicked,
                   received, sent, handled, run,
                   prevFinal>>

\* t1.join().unwrap() (main.rs 244): a panic of print_files aborts main
MainJoin ==
    /\ mainPc = "join"
    /\ aggPc \in {"done", "crashed"}
    /\ mainPc' = IF aggPc = "crashed" THEN "aborted" ELSE "exit"
    /\ UNCHANGED <<tree, n, minsize, allowed, status, current_min, thread_result,
                   min_size, chan, entries, current_status, snap, aggPc, panicked,
                   received, sent, handled, run,
                   prevFinal>>

(* ---------------- the aggregator: print_files ---------------- *)
\* one iteration of the receive loop (main.rs 172-200)
Recv ==
    /\ mainPc # "aborted"
    /\ aggPc = "recv"
    /\ chan # <<>>
    /\ chan' = Tail(chan)
    /\ handled' = handled + 1
    /\ LET msg == Head(chan) IN
       IF msg.type = "Result"
       THEN /\ current_status' = add_assign(current_status, msg.sr)
            /\ snap' = IF current_status'.directories % 10 = 0
                       THEN Snapshot("status", entries, current_status')
                       ELSE snap
            /\ UNCHANGED <<entries, min_size, received>>
       ELSE /\ received' = Append(received, msg.path)
            /\ IF Accepts(msg.size, min_size)
               THEN /\ entries' = truncate(sort_by(Append(entries,
                                      [path |-> msg.path, size |-> msg.size])), n)
                    /\ min_size' = Published(entries', min_size)
                    /\ snap' = Snapshot("status", entries', current_status)
                    /\ UNCHANGED current_status
               ELSE UNCHANGED <<entries, min_size, snap, current_status>>
    /\ UNCHANGED <<tree, n, minsize, allowed, status, current_min, thread_result,
                   mainPc, aggPc, panicked, sent, run, prevFinal>>

\* blocking_recv returns None: the channel is empty and every sender is dropped;
\* printer.print_final (main.rs 201-203)
PrintFinal ==
    /\ mainPc # "aborted"
    /\ aggPc = "recv"
    /\ chan = <<>>
    /\ TxClosed
    /\ aggPc' = "done"
    /\ snap' = Snapshot("final", entries, current_status)
    /\ UNCHANGED <<tree, n, minsize, allowed, status, current_min, thread_result,
                   min_size, chan, entries, current_status, mainPc, panicked,
                   received, sent, handled, run,
                   prevFinal>>

Next ==
    \/ ScanRoot
    \/ \E e \in Nodes : MapEntry(e)
    \/ \E e \in Nodes : MapEntrySend(e)
    \/ \E d \in Nodes : ScanDirReturn(d)
    \/ SendResult
    \/ DropTx
    \/ MainAwait
    \/ MainJoin
    \/ Recv
    \/ PrintFinal

\* print_files panics: the terminal cannot be set up or drawn to (print.rs 60, 207);
\* the receiver is dropped with the events it holds
PrintFilesPanics ==
    /\ mainPc # "aborted"
    /\ aggPc = "recv"
    /\ aggPc' = "crashed"
    /\ chan' = <<>>
    /\ UNCHANGED <<tree, n, minsize, allowed, status, current_min, thread_result,
                   min_size, entries, current_status, snap, mainPc, panicked,
                   received, sent, handled, run, prevFinal>>

NextCrash == Next \/ PrintFilesPanics

\* scan_dir's closure without the size test of main.rs 128: every regular file whose
\* stat succeeds is forwarded, whatever floor the walker read (the walker of the
\* unpruned scan that pruning is compared with)
MapEntryForward(e) ==
    /\ mainPc = "scan"
    /\ status[e] = "loaded"
    /\ IF tree[e].convertible
       THEN /\ chan' = send(chan, FileMsg(e))
            /\ sent' = send(sent, FileMsg(e))
            /\ Finish(e, OneFile)
            /\ UNCHANGED panicked
       ELSE /\ panicked' = TRUE
            /\ status' = [status EXCEPT ![e] = "panicked"]
            /\ UNCHANGED <<chan, sent, thread_result>>
    /\ UNCHANGED <<tree, n, minsize, allowed, current_min, min_size, entries,
                   current_status, snap, mainPc, aggPc, received, handled,
                   run, prevFinal>>

NextNoPrune ==
    \/ ScanRoot
    \/ \E e \in Nodes : MapEntry(e)
    \/ \E e \in Nodes : MapEntryForward(e)
    \/ \E d \in Nodes : ScanDirReturn(d)
    \/ SendResult
    \/ DropTx
    \/ MainAwait
    \/ MainJoin
    \/ Recv
    \/ PrintFinal

\* the (path, size) pairs of a top-K list
PathSizes(es) == {es[i] : i \in 1..Len(es)}

\* the program is run once more on the same tree with the same arguments
\* (main.rs 207-219)
Rescan ==
    /\ run = 1
    /\ mainPc = "exit"
    /\ run' = 2
    /\ prevFinal' = PathSizes(snap.entries)
    /\ status' = [e \in Nodes |-> IF e = 0 THEN "ready" ELSE "none"]
    /\ current_min' = [e \in Nodes |-> 0]
    /\ thread_result' = [e \in Nodes |-> ZeroResult]
    /\ min_size' = minsize
    /\ chan' = <<>>
    /\ entries' = <<>>
    /\ current_status' = ZeroResult
    /\ snap' = Snapshot("none", <<>>, ZeroResult)
    /\ mainPc' = "scan"
    /\ aggPc' = "recv"
    /\ panicked' = FALSE
    /\ received' = <<>>
    /\ sent' = <<>>
    /\ handled' = 0
    /\ UNCHANGED <<tree, n, minsize, allowed>>

NextTwice == Next \/ Rescan

(* ---------------- trees ---------------- *)
\* root: two files, a directory d holding one file, and one more entry x;
\* the two files of the root are interchangeable, so s1 <= s2 loses no case
GenericTree(s1, s2, s3, d, x) ==
    (0 :> RootDir) @@ (1 :> File(0, s1)) @@ (2 :> File(0, s2)) @@ (3 :> d)
    @@ (4 :> File(3, s3)) @@ (5 :> x)

Sizes == 0..MaxSize

SizeTriples == {t \in Sizes \X Sizes \X Sizes : t[1] <= t[2]}

\* every entry is readable
PlainTrees ==
    { GenericTree(t[1], t[2], t[3], Dir(0, 1, "ok"), Special(0, "symlink")) :
        t \in SizeTriples }

\* one entry of the root is out of the ordinary
OddEntryTrees ==
    { GenericTree(t[1], t[2], t[3], Dir(0, 1, "ok"), x) :
        t \in SizeTriples,
        x \in {Special(0, k) : k \in {"enumerr", "ftdenied", "fterr"}}
              \cup {Unstatable(0, st) : st \in {"denied", "err"}}
              \cup {Unconvertible(0, s) : s \in Sizes} }

\* the directory is unreadable, or on a device that is not allowed
OddDirTrees ==
    { GenericTree(t[1], t[2], t[3], d, Special(0, "symlink")) :
        t \in SizeTriples,
        d \in {Dir(0, 2, "ok"), Dir(0, 1, "denied"), Dir(0, 1, "err")} }

GenericTrees == PlainTrees \cup OddEntryTrees \cup OddDirTrees

\* Scenario A: files of sizes 10, 50, 5, 100, 20
ScenarioTree ==
    (0 :> RootDir) @@ (1 :> File(0, 10)) @@ (2 :> File(0, 50)) @@ (3 :> File(0, 5))
    @@ (4 :> Dir(0, 1, "ok")) @@ (5 :> File(4, 100)) @@ (6 :> File(4, 20))

\* Scenario C: the nested directory 1 is unreadable, its sibling 3 is readable
ScenarioCTree(s1, s2, s3) ==
    (0 :> RootDir) @@ (1 :> Dir(0, 1, "denied")) @@ (2 :> File(1, MaxSize))
    @@ (3 :> Dir(0, 1, "ok")) @@ (4 :> File(3, s1)) @@ (5 :> File(3, s2))
    @@ (6 :> File(0, s3))

\* the two files of the readable directory are interchangeable
ScenarioCTrees ==
    { ScenarioCTree(t[1], t[2], 1) : t \in {u \in Sizes \X Sizes : u[1] <= u[2]} }

\* entry 3 is a symbolic link to a directory that holds file 4
LinkTree(s1, s2, s3) ==
    (0 :> RootDir) @@ (1 :> File(0, s1)) @@ (2 :> File(0, s2))
    @@ (3 :> Special(0, "symlink")) @@ (4 :> File(3, s3))

LinkTrees == { LinkTree(t[1], t[2], t[3]) : t \in SizeTriples }

MaxDev == 3
Devices == 1..MaxDev

\* directory 2 on device a holds directory 3 on device b; the root is on device 1
DevTree(a, b) ==
    (0 :> RootDir) @@ (1 :> File(0, 1)) @@ (2 :> Dir(0, a, "ok"))
    @@ (3 :> Dir(2, b, "ok")) @@ (4 :> File(3, 2)) @@ (5 :> File(2, 1))

DevTrees == { DevTree(a, b) : a \in Devices, b \in Devices }

Init == InitOn(GenericTrees, 1..MaxN, 0..MaxMinSize)

InitLink == InitOn(LinkTrees, 1..MaxN, 0..MaxMinSize)

\* the mount point of a disk may be on device 2 (main.rs 224-230)
InitDev == InitWith(DevTrees, 1..MaxN, 0..MaxMinSize, {{1}, {1, 2}})

InitCrash == InitOn(PlainTrees, 1..MaxN, 0..MaxMinSize)

InitNoPrune == InitOn(PlainTrees, 1..MaxN, 0..MaxMinSize)

InitC == InitOn(ScenarioCTrees, 1..MaxN, 0..MaxMinSize)

InitTwice == InitOn(PlainTrees, 1..MaxN, 0..MaxMinSize)

\* Scenario A: N = 3, minsize = 0
InitA == InitOn({ScenarioTree}, {3}, {0})

\* Scenario B: the same tree, N = 3, minsize = 60
InitB == InitOn({ScenarioTree}, {3}, {60})

Spec == Init /\ [][Next]_vars

SpecTwice == InitTwice /\ [][NextTwice]_vars

SpecA == InitA /\ [][Next]_vars

SpecB == InitB /\ [][Next]_vars

SpecLink == InitLink /\ [][Next]_vars

SpecDev == InitDev /\ [][Next]_vars

\* the consumer may fail
SpecCrash == InitCrash /\ [][NextCrash]_vars

\* the scan without walker-side pruning
SpecNoPrune == InitNoPrune /\ [][NextNoPrune]_vars

\* every thread that can take a step is eventually scheduled
SpecC == InitC /\ [][Next]_vars /\ WF_vars(Next)

(* ======================= properties ======================= *)
Min(a, b) == IF a < b THEN a ELSE b

RegularFiles == {e \in Nodes : tree[e].kind = "file"}

\* the regular files a walker has obtained the metadata of and counted
ScannedFiles == {e \in RegularFiles : tree[e].stat = "ok" /\ status[e] = "done"}

\* the scan has run to its end: print_files has left its loop and emitted the
\* final snapshot, and no walker has panicked
ScanFinished == aggPc = "done" /\ snap.kind = "final" /\ ~panicked

Paths(es) == {es[i].path : i \in 1..Len(es)}
SizesOf(es) == [i \in 1..Len(es) |-> es[i].size]

\* the position at which the candidate of path p arrived at the aggregator
Arrival(p) == CHOOSE k \in 1..Len(received) : received[k] = p

\* C1: when the scan finishes the top-K has exactly min(N, number of scanned regular
\* files of size >= minsize) entries
C1_TopKCount ==
    ScanFinished =>
        Len(entries) = Min(n, Cardinality({e \in ScannedFiles : tree[e].size >= minsize}))

\* C2: Scenario A (sizes 10, 50, 5, 100, 20, N = 3, minsize = 0) ends with the top-K
\* [100, 50, 20], whatever the order of discovery and arrival
C2_ScenarioA == ScanFinished => SizesOf(entries) = <<100, 50, 20>>

\* C3: a second scan of the same tree with the same N and minsize ends with the same
\* set of (path, size) pairs as the first
C3_SameFinalTopK == (run = 2 /\ ScanFinished) => PathSizes(entries) = prevFinal

\* C4: when the scan finishes with a non-empty top-K, no scanned regular file outside
\* the top-K is larger than the smallest member of the top-K
C4_ExcludedNotLarger ==
    (ScanFinished /\ entries # <<>>) =>
        \A e \in ScannedFiles \ Paths(entries) : tree[e].size <= Last(entries).size

\* a finished scan whose top-K leaves out a file that arrived at the aggregator and a
\* file of size > minsize that a walker filtered
C4_Witness ==
    /\ ScanFinished
    /\ entries # <<>>
    /\ \E e \in ScannedFiles \ Paths(entries) : \E k \in 1..Len(received) : received[k] = e
    /\ \E e \in ScannedFiles \ Paths(entries) :
          /\ tree[e].size > minsize
          /\ \A k \in 1..Len(received) : received[k] # e

SortedByArrival(es) ==
    \A i \in 1..Len(es) : \A j \in 1..Len(es) :
        i < j => /\ es[i].size >= es[j].size
                 /\ es[i].size = es[j].size => Arrival(es[i].path) < Arrival(es[j].path)

\* C5: the top-K, and every snapshot of it, is sorted by non-increasing size, and of
\* two members of equal size the one that arrived first comes first
C5_SortedStable == SortedByArrival(entries) /\ SortedByArrival(snap.entries)

\* a snapshot holding two members of equal size
C5_Witness ==
    /\ snap.kind = "status"
    /\ \E i \in 1..(Len(snap.entries) - 1) : snap.entries[i].size = snap.entries[i + 1].size

\* C6: no step lowers the shared floor
C6_FloorNeverDecreases == [][min_size' >= min_size]_vars

\* the floor has been raised by a first insertion and again by an eviction of the
\* first member
C6_Witness ==
    /\ Len(received) >= 1
    /\ tree[received[1]].size > minsize
    /\ entries # <<>>
    /\ received[1] \notin Paths(entries)
    /\ min_size > tree[received[1]].size

\* C7: the top-K, and every snapshot of it, never holds more than N candidates
C7_AtMostN == Len(entries) <= n /\ Len(snap.entries) <= n

\* the top-K is full and the candidate that arrived first, which was inserted, has
\* been evicted
C7_Witness ==
    /\ Len(entries) = n
    /\ Len(snap.entries) = n
    /\ Len(received) >= 1
    /\ tree[received[1]].size > minsize
    /\ received[1] \notin Paths(entries)

\* C8: once the top-K holds N members the shared floor is at most the size of its
\* smallest member
C8_FloorBelowSmallest == Len(entries) = n => min_size <= Last(entries).size

\* a top-K of N >= 2 members of different sizes
C8_Witness ==
    /\ n >= 2
    /\ Len(entries) = n
    /\ entries[1].size > Last(entries).size

(* ---- conservation ---- *)
\* the directories scan_dir has been called on
VisitedDirs ==
    {d \in Nodes : /\ tree[d].kind = "dir"
                   /\ status[d] \in {"scanning", "done"}
                   /\ (d = 0 \/ Enter(d))}

\* what the scan_dir call on d counts itself, its nested calls left out
Partial(d) ==
    CASE tree[d].read = "denied" -> OneDenied
      [] tree[d].read = "err" -> OneError
      [] OTHER -> add_assign(OneDirectory,
                     SumResults(thread_result,
                                {e \in Children(d) : tree[e].kind # "dir"}))

RECURSIVE SumPartials(_)
SumPartials(D) ==
    IF D = {} THEN ZeroResult
    ELSE LET d == CHOOSE x \in D : TRUE
         IN add_assign(Partial(d), SumPartials(D \ {d}))

\* the entries of the directories that were read
VisitedEntries ==
    {e \in Nodes : e # 0 /\ tree[e].parent \in VisitedDirs
                         /\ tree[tree[e].parent].read = "ok"}

Counted(r) == r.errors + r.permission_denied + r.files + r.directories

\* C9: at the final snapshot of a finished scan the total is the sum of the partial
\* results of the visited directories, and it counts the root and every entry of
\* every visited directory exactly once
C9_Conservation ==
    ScanFinished =>
        /\ snap.status = SumPartials(VisitedDirs)
        /\ Counted(snap.status) = 1 + Cardinality(VisitedEntries)

\* C10: the scan runs to its end: while the process has not ended some step can be
\* taken (no deadlock), and when it has ended every walker has finished and the
\* final snapshot has been emitted
C10_ScanTerminates ==
    /\ mainPc \notin {"exit", "aborted"} => ENABLED Next
    /\ mainPc \in {"exit", "aborted"} =>
          /\ snap.kind = "final"
          /\ \A e \in Nodes : status[e] \in {"none", "dropped", "done"}

(* ---- events ---- *)
RECURSIVE FilePaths(_)
\* the paths of the candidate events of a sequence of events, in order
FilePaths(ms) ==
    IF ms = <<>> THEN <<>>
    ELSE IF Head(ms).type = "File" THEN <<Head(ms).path>> \o FilePaths(Tail(ms))
         ELSE FilePaths(Tail(ms))

\* every event sent is either still in the channel or has been taken from it, once
\* and in order; the final snapshot comes after all of them; when the process has
\* ended every event has been processed and the final snapshot has been emitted
C11_Events ==
    /\ handled <= Len(sent)
    /\ aggPc = "recv" => chan = SubSeq(sent, handled + 1, Len(sent))
    /\ received = FilePaths(SubSeq(sent, 1, handled))
    /\ snap.kind = "final" => (aggPc = "done" /\ handled = Len(sent))
    /\ mainPc \in {"exit", "aborted"} => (snap.kind = "final" /\ handled = Len(sent))

\* nothing follows the final snapshot
C11_AfterFinal ==
    snap.kind = "final" =>
        UNCHANGED <<snap, entries, current_status, min_size, handled, received>>

\* C11: every event sent on the channel is processed exactly once, the final snapshot
\* is emitted exactly once, after every sent event has been processed, and no
\* snapshot and no change of the top-K or of the total follows it
C11_EventsExactlyOnce == []C11_Events /\ [][C11_AfterFinal]_vars

(* ---- Scenario C ---- *)
Unreadable == {d \in Nodes : d # 0 /\ tree[d].kind = "dir" /\ tree[d].read = "denied"}

\* the directories next to an unreadable one
SiblingDirs ==
    {d \in Nodes \ Unreadable :
        tree[d].kind = "dir" /\ \E u \in Unreadable : tree[u].parent = tree[d].parent}

\* every entry of d has been counted as a file, and has been forwarded and has
\* reached the aggregator if its size was >= the floor its walker read
FullyScanned(d) ==
    /\ status[d] = "done"
    /\ thread_result[d] = [ZeroResult EXCEPT !.directories = 1,
                                             !.files = Cardinality(Children(d))]
    /\ \A e \in Children(d) :
          /\ status[e] = "done"
          /\ thread_result[e] = OneFile
          /\ tree[e].size >= current_min[e] =>
                \E k \in 1..Len(received) : received[k] = e

C12_AtEnd ==
    /\ mainPc # "aborted"
    /\ mainPc = "exit" =>
          /\ snap.kind = "final"
          /\ snap.status.permission_denied = 1
          /\ snap.status.errors = 0
          /\ \A u \in Unreadable : \A e \in Children(u) : status[e] = "none"
          /\ \A d \in SiblingDirs : FullyScanned(d)

\* C12: Scenario C (one nested directory is unreadable, permission denied): the scan
\* runs to its end, the final permission_denied count is 1 and every sibling
\* directory is fully scanned
C12_ScenarioC == []C12_AtEnd /\ <>(mainPc = "exit")

\* a finished Scenario C scan in which a file of the sibling directory was forwarded
\* and another was filtered
C12_Witness ==
    /\ mainPc = "exit"
    /\ Cardinality(Unreadable) = 1
    /\ \E d \in SiblingDirs : \E e \in Children(d), f \in Children(d) :
          /\ tree[e].size >= current_min[e]
          /\ tree[f].size < current_min[f]

(* ---- symbolic links ---- *)
Symlinks == {e \in Nodes : tree[e].kind = "symlink"}

RECURSIVE Below(_, _)
\* e lies below node a
Below(e, a) == e # 0 /\ (tree[e].parent = a \/ Below(tree[e].parent, a))

SentPaths == {sent[k].path : k \in 1..Len(sent)}

\* a link is counted as one file, nothing below it is visited, and neither the link
\* nor anything below it is forwarded or held in the top-K
C13_Links ==
    \A l \in Symlinks :
        /\ status[l] \in {"none", "ready", "done"}
        /\ thread_result[l] = (IF status[l] = "done" THEN OneFile ELSE ZeroResult)
        /\ l \notin SentPaths \cup Paths(entries)
        /\ \A e \in Nodes : Below(e, l) =>
              (status[e] = "none" /\ e \notin SentPaths \cup Paths(entries))
        /\ ScanFinished =>
              snap.status.files = 1 + Cardinality({e \in RegularFiles : status[e] = "done"})

\* the step of a link's closure changes the link's own status and count only
C13_LinkStep ==
    \A l \in Symlinks :
        (status[l] = "ready" /\ status'[l] # "ready") =>
            /\ status' = [status EXCEPT ![l] = "done"]
            /\ thread_result' = [thread_result EXCEPT ![l] = OneFile]
            /\ UNCHANGED <<chan, sent, min_size, current_min, entries, current_status,
                           snap, received, handled, panicked, mainPc, aggPc>>

\* C13: a symbolic link adds exactly 1 to the file count, is never recursed into and
\* is never forwarded; its step touches nothing the top-K is computed from, so the
\* top-K evolves as it does without the link
C13_SymlinkCountedOnce == []C13_Links /\ [][C13_LinkStep]_vars

\* a finished scan of a tree with a link to a directory whose file is larger than
\* every member of the top-K
C13_Witness ==
    /\ ScanFinished
    /\ entries # <<>>
    /\ \E l \in Symlinks : \E e \in Nodes :
          /\ Below(e, l)
          /\ status[l] = "done"
          /\ tree[e].size > entries[1].size

\* C14: Scenario B (sizes 10, 50, 5, 100, 20, N = 3, minsize = 60) ends with the
\* top-K [100], whatever the order of discovery and arrival
C14_ScenarioB == ScanFinished => SizesOf(entries) = <<100>>

\* a finished Scenario B scan: the file of size 100 is the only one that arrived
C14_Witness ==
    /\ ScanFinished
    /\ minsize = 60
    /\ Len(received) = 1
    /\ SizesOf(entries) = <<100>>
    /\ Cardinality(ScannedFiles) = 5

(* ---- failures ---- *)
\* the failures the walkers have met, with their reasons: a visited directory that
\* cannot be read, and of the entries of the directories that were read: one that
\* cannot be enumerated, one whose file_type() fails, one whose metadata() fails
DeniedFailures ==
    {d \in VisitedDirs : tree[d].read = "denied"}
    \cup {e \in VisitedEntries :
            \/ tree[e].kind = "ftdenied"
            \/ tree[e].kind \in {"file", "dir"} /\ tree[e].stat = "denied"}

OtherFailures ==
    {d \in VisitedDirs : tree[d].read = "err"}
    \cup {e \in VisitedEntries :
            \/ tree[e].kind \in {"enumerr", "fterr"}
            \/ tree[e].kind \in {"file", "dir"} /\ tree[e].stat = "err"}

\* C15: when the scan has finished, every failure met has been counted exactly once,
\* in permission_denied when access was denied and in errors otherwise
C15_FailuresCounted ==
    ScanFinished =>
        /\ snap.status.permission_denied = Cardinality(DeniedFailures)
        /\ snap.status.errors = Cardinality(OtherFailures)

(* ---- sends on a closed channel ---- *)
\* a walker's send (main.rs 129) while the receiver is gone: the closure goes on and
\* counts the file, nothing panics
C16_WalkerSend ==
    \A e \in Nodes :
        (RxClosed /\ status[e] = "loaded" /\ status'[e] # "loaded" /\ tree[e].convertible)
        => /\ status'[e] = "done"
           /\ thread_result'[e] = OneFile
           /\ panicked' = panicked

\* the scan driver's send of the result (main.rs 239) while the receiver is gone
C16_DriverSend ==
    (RxClosed /\ ~panicked /\ mainPc = "scan" /\ mainPc' = "sent") => ~panicked'

\* C16: a send on the channel after the consumer has shut down is ignored at every
\* send site: it does not abort the sender and is not counted as an error
C16_ClosedSendIgnored == [][C16_WalkerSend /\ C16_DriverSend]_vars

(* ---- the aggregator's floor ---- *)
\* the floor as specified: the smallest member of a full TopKSet, else the configured
\* minimum size
C17_Floor == IF Len(entries) = n THEN Last(entries).size ELSE minsize

\* C17: a received candidate is discarded iff its size is <= the smallest member's
\* size when the TopKSet holds exactly N members, and <= the configured minimum size
\* when it holds fewer
C17_AggregatorFloor ==
    [][(handled' = handled + 1 /\ Head(chan).type = "File")
        => ((entries' = entries) <=> (Head(chan).size <= C17_Floor))]_vars

C18_KeepsInitial == Len(entries) < n => min_size = minsize

C18_PublishStep ==
    min_size' # min_size => (Len(entries') = n /\ min_size' = Last(entries').size)

\* C18: the SharedThreshold changes only by an insertion that leaves the TopKSet with
\* exactly N members, to the smallest member's size; while the TopKSet holds fewer than
\* N members it keeps the configured minimum size
C18_PublishOnlyWhenFull == []C18_KeepsInitial /\ [][C18_PublishStep]_vars

(* ---- the walker's handling of a regular file ---- *)
\* the step of the closure that follows a successful stat of e (main.rs 128-133)
C20_FileStep(e) ==
    /\ thread_result'[e] = OneFile
    /\ sent' = IF tree[e].size >= current_min[e] THEN Append(sent, FileMsg(e)) ELSE sent

\* C20: for a regular file whose stat succeeds the walker counts one file, and sends
\* one candidate event iff the size is >= the SharedThreshold value it read
C20_CountAndForward ==
    [][\A e \in Nodes :
         (status[e] = "loaded" /\ status'[e] # "loaded") => C20_FileStep(e)]_vars

(* ---- walker-side pruning ---- *)
\* the walker's test (main.rs 128) on the floor it read for e says: do not forward
Pruned(e) == ~Forwards(tree[e].size, current_min[e])

\* the candidates that reach the aggregator when the walkers prune, in the same order
Kept == SelectSeq(received, LAMBDA p : ~Pruned(p))

\* the aggregator's File branch (main.rs 181-195) applied to a sequence of candidates
RECURSIVE AggregateFrom(_, _, _)
AggregateFrom(es, floor, ps) ==
    IF ps = <<>>
    THEN [entries |-> es, min_size |-> floor]
    ELSE LET e == Head(ps) IN
         IF Accepts(tree[e].size, floor)
         THEN LET es2 == truncate(sort_by(Append(es,
                             [path |-> e, size |-> tree[e].size])), n)
              IN AggregateFrom(es2, Published(es2, floor), Tail(ps))
         ELSE AggregateFrom(es, floor, Tail(ps))

\* C19: in the scan whose walkers forward every regular file, the TopKSet and the floor
\* are at every point, and so when the scan finishes, those the aggregator computes from
\* only the candidates that the walkers' test on their (possibly stale) read of the
\* floor lets through, taken in the same order
C19_PruningHarmless ==
    LET a == AggregateFrom(<<>>, minsize, Kept) IN
        /\ entries = a.entries
        /\ min_size = a.min_size

C19_Witness ==
    /\ ScanFinished
    /\ \E p \in Paths(entries) : TRUE
    /\ \E i \in 1..Len(received) :
         Pruned(received[i]) /\ tree[received[i]].size > minsize
    /\ \E i \in 1..Len(received) :
         /\ ~Pruned(received[i])
         /\ current_min[received[i]] < min_size
         /\ received[i] \notin Paths(entries)

(* ---- directory_count ---- *)
\* the directories scan_dir was called on and whose entries it read
ReadDirs == {d \in VisitedDirs : tree[d].read = "ok"}

\* what the scan_dir call on d added to directories itself, the counts merged from
\* its entries left out
OwnDirectories(d) ==
    thread_result[d].directories - SumResults(thread_result, Children(d)).directories

\* C21: a directory whose entries were read adds exactly one to directory_count,
\* whatever its entries and their subtasks, the root like a nested directory, every
\* other directory adds nothing, and the final directory_count is the number of
\* directories read
C21_OneIncrementPerDirectory ==
    /\ \A d \in Nodes :
         (tree[d].kind = "dir" /\ status[d] = "done")
         => OwnDirectories(d) = IF d \in ReadDirs THEN 1 ELSE 0
    /\ ScanFinished => snap.status.directories = Cardinality(ReadDirs)

C21_Witness ==
    /\ ScanFinished
    /\ 0 \in ReadDirs
    /\ \E d \in ReadDirs : d # 0 /\ Cardinality(Children(d)) >= 1
    /\ snap.status.directories = 2

(* ---- failures of metadata() ---- *)
\* the step that e's closure is about to take meets a failure of metadata(): in the
\* walker's own call (main.rs 125) or in the conversion into a candidate (main.rs 34-37)
C22_Fails(e) ==
    \/ status[e] = "ready" /\ tree[e].kind = "file" /\ tree[e].stat # "ok"
    \/ /\ status[e] = "loaded"
       /\ Forwards(tree[e].size, current_min[e])
       /\ ~tree[e].convertible

C22_Recorded(e) ==
    /\ status'[e] = "done"
    /\ thread_result'[e] \in {OneDenied, OneError}
    /\ tree[e].stat = "denied" => thread_result'[e] = OneDenied
    /\ tree[e].stat = "err" => thread_result'[e] = OneError
    /\ panicked' = panicked

\* C22: a failure to obtain an entry's metadata, in the walker's call or while its
\* candidate is built, is counted in permission_denied or errors and aborts nothing
C22_MetadataFailureRecorded ==
    [][\A e \in Nodes :
         (C22_Fails(e) /\ status'[e] # status[e]) => C22_Recorded(e)]_vars

(* ---- frame conditions ---- *)
\* a step of a walker or of the scan driver
C23_WalkerStep ==
    status' # status \/ current_min' # current_min \/ thread_result' # thread_result

\* C23: a walker step leaves the TopKSet, the running total and the SharedThreshold
\* unchanged, and every step that changes one of them is a receive of the aggregator
C23_OnlyAggregatorMutates ==
    [][/\ C23_WalkerStep => UNCHANGED <<entries, current_status, min_size>>
       /\ <<entries, current_status, min_size>>' # <<entries, current_status, min_size>>
          => (handled' = handled + 1 /\ aggPc = "recv")]_vars

C23_Witness ==
    /\ entries # <<>>
    /\ min_size > minsize
    /\ \E e \in Nodes : status[e] = "loaded" /\ current_min[e] = min_size
    /\ \E e \in Nodes : status[e] = "done" /\ e \in Paths(entries)

\* C24: the receive of a candidate whose size is <= the floor (the one the aggregator
\* loads, and so also the smallest member of a full TopKSet or the configured minimum)
\* changes neither the TopKSet, the SharedThreshold, the running total nor the snapshot
C24_DiscardChangesNothing ==
    [][(/\ handled' = handled + 1
        /\ Head(chan).type = "File"
        /\ (Head(chan).size <= min_size \/ Head(chan).size <= C17_Floor))
       => UNCHANGED <<entries, min_size, current_status, snap>>]_vars

C24_Witness ==
    /\ n = 2
    /\ Len(entries) = 1
    /\ Len(received) >= 2
    /\ snap.kind = "status"
    /\ snap.entries = entries

(* ---- device boundaries ---- *)
\* scan_dir was called on the directory entry e
Entered(e) ==
    status[e] = "scanning" \/ (status[e] = "done" /\ thread_result[e] # ZeroResult)

\* C25: a subdirectory is entered iff it is on the device of the directory being
\* scanned or on a device of the allow-set, and the scan of an entered subdirectory
\* compares against the subdirectory's own device
C25_DeviceBoundary ==
    \A e \in Nodes :
        (e # 0 /\ tree[e].kind = "dir" /\ status[e] \in {"scanning", "done"})
        => /\ Entered(e) <=> ~(/\ tree[e].dev # tree[tree[e].parent].dev
                               /\ tree[e].dev \notin allowed)
           /\ Entered(e) => CurrentDev(e) = tree[e].dev

C25_Witness ==
    /\ ScanFinished
    /\ \E e \in Nodes :
         /\ e # 0 /\ tree[e].kind = "dir" /\ Entered(e)
         /\ tree[e].dev # tree[tree[e].parent].dev
    /\ \E e \in Nodes :
         /\ e # 0 /\ tree[e].kind = "dir" /\ status[e] = "done" /\ ~Entered(e)
         /\ Entered(tree[e].parent)

(* ---- the result event ---- *)
\* the positions of the result events among the events sent
ResultEvents == {i \in 1..Len(sent) : sent[i].type = "Result"}

\* the aggregator has not yet received a result event
C26_BeforeResult == ResultEvents = {} \/ handled < Len(sent)

\* C26: at most one result event is sent and, once the process has ended, exactly
\* one; it is sent after the root scan_dir call has returned, carries the root's
\* merged total and is the last event sent; until the aggregator receives it the
\* running total, and the total of every snapshot, is all zeros
C26_OneResultLast ==
    /\ Cardinality(ResultEvents) <= 1
    /\ mainPc \in {"exit", "aborted"} => Cardinality(ResultEvents) = 1
    /\ \A i \in ResultEvents :
         /\ i = Len(sent)
         /\ status[0] = "done"
         /\ sent[i].sr = thread_result[0]
    /\ C26_BeforeResult => (current_status = ZeroResult /\ snap.status = ZeroResult)

====
